---- MODULE Spec2Model ----
(***************************************************************************)
(* DokuwebTicketClient (authenticate, the lazy SOAP handle, createTicket,  *)
(* getKeywords, getTicketDetails, searchTicketsByCreator) and the dokuweb  *)
(* routes that drive it.                                                   *)
(*                                                                         *)
(* A JavaScript string is a sequence of symbols: one symbol per character  *)
(* of data, one symbol per literal chunk of a template string.  null and   *)
(* undefined are the one-symbol sequences that their interpolation prints. *)
(***************************************************************************)
EXTENDS Naturals, Sequences, FiniteSets, TLC

VARIABLES authToken, soapClient, slots, handler

vars == <<authToken, soapClient, slots, handler>>

\* ------------------------------------------------------------------ bounds

\* Concurrent invocations on one client instance.
NProcs == 2
\* Longest token response body.
MaxBodyLen == 2
\* Longest tail appended to the first field of a createTicketReturn string.
MaxTail == 4
\* Most keyword records in a DATA array.
MaxData == 2
\* Most <ticket .../> elements in an XML body.
MaxElems == 2
\* Longest attribute value.
MaxValLen == 1

Procs == 1..NProcs

\* ----------------------------------------------------------------- strings

Null == <<"null">>
Undefined == <<"undefined">>

JsTrue == <<"true">>
JsFalse == <<"false">>

\* !x: null, undefined, false and "" are falsy.
Falsy(x) == x = Null \/ x = Undefined \/ x = JsFalse \/ x = <<>>

Whitespace == {" ", "\t", "\n"}

RECURSIVE TrimStart(_)
TrimStart(s) ==
  IF s # <<>> /\ Head(s) \in Whitespace THEN TrimStart(Tail(s)) ELSE s

RECURSIVE TrimEnd(_)
TrimEnd(s) ==
  IF s # <<>> /\ s[Len(s)] \in Whitespace
  THEN TrimEnd(SubSeq(s, 1, Len(s) - 1))
  ELSE s

\* String.prototype.trim
Trim(s) == TrimEnd(TrimStart(s))

\* s occurs in msg as a contiguous run.
Contains(msg, s) ==
  \E i \in 1..(Len(msg) + 1) :
    /\ i + Len(s) - 1 <= Len(msg)
    /\ SubSeq(msg, i, i + Len(s) - 1) = s

\* Sequences over S of length at most n.
SeqsUpTo(S, n) == UNION {[1..k -> S] : k \in 0..n}

RECURSIVE Flatten(_)
Flatten(ss) == IF ss = <<>> THEN <<>> ELSE Head(ss) \o Flatten(Tail(ss))

\* ------------------------------------------------------------------- state

NoClient == 0
NoResult == [kind |-> "none"]
NoError == <<>>
\* What the remote service answered to an invocation: nothing yet, a
\* response, or a failed request.
NoInput == [kind |-> "none", val |-> <<>>]
Received(v) == [kind |-> "response", val |-> v]
Failed(f) == [kind |-> "failure", val |-> f]

IdleSlot ==
  [op |-> "none", pc |-> "idle", result |-> NoResult, error |-> NoError,
   client |-> NoClient, creates |-> 0, soapCalls |-> 0, httpGets |-> 0, input |-> NoInput]

NoResponse == [key |-> "none", value |-> NoResult]
NoHandler == [route |-> "none", pc |-> "idle", response |-> NoResponse]

\* new DokuwebTicketClient(...)
Init ==
  /\ authToken = Null
  /\ soapClient = NoClient
  /\ slots = [p \in Procs |-> IdleSlot]
  /\ handler = NoHandler

Free(p) == slots[p].pc \in {"idle", "resolved", "rejected"}
InFlight(p) == ~Free(p)

SoapOps == {"createTicket", "getKeywords"}
RestOps == {"getTicketDetails", "searchTicketsByCreator"}
TicketOps == SoapOps \cup RestOps

\* A fresh invocation of op in slot p.
Started(op) == [IdleSlot EXCEPT !.op = op]

\* The operation's promise settles; its local `client` goes out of scope.
Resolve(s, r) ==
  [s EXCEPT !.pc = "resolved", !.result = r, !.client = NoClient]
Reject(s, msg) ==
  [s EXCEPT !.pc = "rejected", !.error = msg, !.client = NoClient]

\* ------------------------------------------------------------ authenticate

\* Outcomes of a failed axios request: a non-2xx response, or no response.
Failures ==
  { [response |-> TRUE, status |-> "401", statusText |-> "Unauthorized",
     message |-> "Request failed with status code 401"],
    [response |-> TRUE, status |-> "500", statusText |-> "Internal Server Error",
     message |-> "Request failed with status code 500"],
    [response |-> FALSE, status |-> "", statusText |-> "",
     message |-> "connect ECONNREFUSED"] }

\* `${err.response?.status} ${err.response?.statusText}`
StatusText(f) ==
  IF f.response
  THEN <<f.status, " ", f.statusText>>
  ELSE Undefined \o <<" ">> \o Undefined

BodyChars == {" ", "\n", "k"}
AuthBodies == SeqsUpTo(BodyChars, MaxBodyLen)
SmallAuthBodies == {<<" ">>, <<" ", "k", "\n">>}
SmallFailures == {f \in Failures : f.status # "500"}

\* axios.get(authUrl, ...) is sent and awaited.
AuthenticateEnter ==
  [Started("authenticate") EXCEPT !.pc = "awaitAuth", !.httpGets = 1]

authenticate(p) ==
  /\ Free(p)
  /\ slots' = [slots EXCEPT ![p] = AuthenticateEnter]
  /\ UNCHANGED <<authToken, soapClient, handler>>

\* this.authToken = response.data.trim(); return this.authToken;
authenticateResolve(p, body) ==
  /\ slots[p].pc = "awaitAuth"
  /\ authToken' = Trim(body)
  /\ slots' = [slots EXCEPT ![p] =
       Resolve([@ EXCEPT !.input = Received(body)], [kind |-> "string", val |-> Trim(body)])]
  /\ UNCHANGED <<soapClient, handler>>

authenticateReject(p, f) ==
  /\ slots[p].pc = "awaitAuth"
  /\ slots' = [slots EXCEPT ![p] =
       Reject([@ EXCEPT !.input = Failed(f)],
              <<"Authentication failed: ">> \o StatusText(f))]
  /\ UNCHANGED <<authToken, soapClient, handler>>

\* ---------------------------------------------------------- _getSoapClient

PreconditionMsg == <<"authToken is missing. Call authenticate() first.">>

NeedsCreateAlways == TRUE

\* if (!this.soapClient)
NeedsCreate == soapClient = NoClient

\* The slot after the synchronous part of _getSoapClient().
GetSoapClientEnter(s) ==
  IF NeedsCreate
  THEN IF Falsy(authToken)
       THEN Reject(s, PreconditionMsg)
       ELSE [s EXCEPT !.pc = "awaitCreate", !.creates = @ + 1]
  ELSE [s EXCEPT !.pc = "gotClient", !.client = soapClient]

\* Every completed creation yields a new handle; they are numbered in the
\* order of completion.
FreshHandle == soapClient + 1

StoreHandleOnce(h) == IF soapClient = NoClient THEN h ELSE soapClient

\* this.soapClient = await soap.createClientAsync(this.soapWsdl);
StoreHandle(h) == h

CreateErrors == {"getaddrinfo ENOTFOUND"}

getSoapClientResolve(p) ==
  /\ slots[p].pc = "awaitCreate"
  /\ soapClient' = StoreHandle(FreshHandle)
  /\ slots' = [slots EXCEPT ![p] =
       [@ EXCEPT !.pc = "gotClient", !.client = soapClient']]
  /\ UNCHANGED <<authToken, handler>>

\* The rejection leaves createTicket / getKeywords before their try block.
getSoapClientReject(p, e) ==
  /\ slots[p].pc = "awaitCreate"
  /\ slots' = [slots EXCEPT ![p] = Reject([@ EXCEPT !.input = Failed(e)], <<e>>)]
  /\ UNCHANGED <<authToken, soapClient, handler>>

\* ------------------------------------------------------------ createTicket

\* `${op} SOAP error: ${err.message}`
SoapError(op, inner) == <<op, " SOAP error: ">> \o inner

\* `${op} REST error: ${err.response?.status} ${err.response?.statusText}`
RestError(op, f) == <<op, " REST error: ">> \o StatusText(f)

RECURSIVE SplitFrom(_, _, _)
SplitFrom(s, sep, cur) ==
  IF s = <<>> THEN <<cur>>
  ELSE IF Head(s) = sep THEN <<cur>> \o SplitFrom(Tail(s), sep, <<>>)
  ELSE SplitFrom(Tail(s), sep, Append(cur, Head(s)))

\* String.prototype.split(sep) for a one-character separator.
Split(s, sep) == SplitFrom(s, sep, <<>>)

\* parts[i] of a JavaScript array, 0-based: undefined past the end.
At(parts, i) == IF i + 1 <= Len(parts) THEN parts[i + 1] ELSE Undefined

StrTrue == <<"t", "r", "u", "e">>

TicketOfShifted(parts) ==
  [kind |-> "ticket", ticketid |-> At(parts, 0), ticketnr |-> At(parts, 1)]

\* const ticketid = parts[1]; const ticketnr = parts[2];
TicketOf(parts) ==
  [kind |-> "ticket", ticketid |-> At(parts, 1), ticketnr |-> At(parts, 2)]

\* Lines 157-168: the slot after the SOAP call returned createTicketReturn = ret.
createTicketFinish(s, ret) ==
  IF ret = Undefined
  THEN Reject(s, SoapError("createTicket",
         <<"Cannot read properties of undefined (reading 'split')">>))
  ELSE LET parts == Split(ret, "|") IN
       IF At(parts, 0) # StrTrue
       THEN Reject(s, SoapError("createTicket",
              <<"Ticket creation failed: ">> \o ret))
       ELSE Resolve(s, TicketOf(parts))

RetHeads ==
  { StrTrue, <<"t", "r", "u">>, StrTrue \o <<"5">>, <<"T", "r", "u", "e">>,
    <<"f", "a", "l", "s", "e">>, <<>> }
RetTailChars == {"|", "5", "T"}

\* createTicketReturn strings: a first field, then up to MaxTail characters.
Rets == {h \o t : h \in RetHeads, t \in SeqsUpTo(RetTailChars, MaxTail)}

SmallRets ==
  { StrTrue \o <<"|", "5", "|", "T">>, <<"f", "a", "l", "s", "e", "|", "E">>,
    Undefined }

createTicket(p) ==
  /\ Free(p)
  /\ slots' = [slots EXCEPT ![p] = GetSoapClientEnter(Started("createTicket"))]
  /\ UNCHANGED <<authToken, soapClient, handler>>

\* client.createTicketAsync(methodArgs) / client.getKeywordsAsync(methodArgs),
\* once the awaited _getSoapClient() has returned.
soapCall(p) ==
  /\ slots[p].pc = "gotClient"
  /\ slots' = [slots EXCEPT ![p] =
       [@ EXCEPT !.pc = "awaitCall", !.soapCalls = @ + 1]]
  /\ UNCHANGED <<authToken, soapClient, handler>>

createTicketResolve(p, ret) ==
  /\ slots[p].pc = "awaitCall"
  /\ slots[p].op = "createTicket"
  /\ slots' = [slots EXCEPT ![p] = createTicketFinish([@ EXCEPT !.input = Received(ret)], ret)]
  /\ UNCHANGED <<authToken, soapClient, handler>>

CallErrors == {"soap:Server fault"}

\* The SOAP call itself rejects: caught and wrapped by the operation.
soapCallReject(p, e) ==
  /\ slots[p].pc = "awaitCall"
  /\ slots' = [slots EXCEPT ![p] =
       Reject([@ EXCEPT !.input = Failed(e)], SoapError(@.op, <<e>>))]
  /\ UNCHANGED <<authToken, soapClient, handler>>

\* ------------------------------------------------------------- getKeywords

Keywords == {"Mieterhoehung", "Heizung"}
ErrorTexts == {<<"no access">>, Undefined}

\* getKeywordsReturn strings, by what JSON.parse makes of them: a syntax
\* error, null, or an envelope object (a missing field reads as undefined).
Envelope(succ, data, text) ==
  [wellFormed |-> TRUE, isNull |-> FALSE, SUCCESS |-> succ, DATA |-> data,
   ERRORTEXT |-> text]
Malformed == [Envelope(Undefined, Undefined, Undefined) EXCEPT !.wellFormed = FALSE]
JsonNull == [Envelope(Undefined, Undefined, Undefined) EXCEPT !.isNull = TRUE]

KeywordReturns ==
  {Malformed, JsonNull} \cup
  { Envelope(s, d, t) :
      s \in {JsTrue, JsFalse, Undefined, <<"n", "o">>},
      d \in SeqsUpTo(Keywords, MaxData) \cup {Undefined},
      t \in ErrorTexts }

SmallKeywordReturns ==
  { Malformed, Envelope(JsTrue, <<"Heizung">>, Undefined),
    Envelope(JsFalse, Undefined, <<"no access">>) }

getKeywordsFinishUnchecked(s, ret) ==
  IF ~ret.wellFormed
  THEN Reject(s, SoapError("getKeywords", <<"Unexpected token in JSON">>))
  ELSE Resolve(s, [kind |-> "data", val |-> ret.DATA])

\* Lines 234-242: the slot after the SOAP call returned getKeywordsReturn = ret.
getKeywordsFinish(s, ret) ==
  IF ~ret.wellFormed
  THEN Reject(s, SoapError("getKeywords", <<"Unexpected token in JSON">>))
  ELSE IF ret.isNull
  THEN Reject(s, SoapError("getKeywords",
         <<"Cannot read properties of null (reading 'SUCCESS')">>))
  ELSE IF Falsy(ret.SUCCESS)
  THEN Reject(s, SoapError("getKeywords",
         <<"getKeywords failed: ">> \o ret.ERRORTEXT))
  ELSE Resolve(s, [kind |-> "data", val |-> ret.DATA])

getKeywords(p) ==
  /\ Free(p)
  /\ slots' = [slots EXCEPT ![p] = GetSoapClientEnter(Started("getKeywords"))]
  /\ UNCHANGED <<authToken, soapClient, handler>>

getKeywordsResolve(p, ret) ==
  /\ slots[p].pc = "awaitCall"
  /\ slots[p].op = "getKeywords"
  /\ slots' = [slots EXCEPT ![p] = getKeywordsFinish([@ EXCEPT !.input = Received(ret)], ret)]
  /\ UNCHANGED <<authToken, soapClient, handler>>

\* ------------------------------------------------- XML attribute extraction

\* \w
WordChars ==
  { "a", "b", "c", "d", "e", "f", "g", "h", "i", "j", "k", "l", "m", "n", "o",
    "p", "q", "r", "s", "t", "u", "v", "w", "x", "y", "z",
    "A", "B", "C", "D", "E", "F", "G", "H", "I", "J", "K", "L", "M", "N", "O",
    "P", "Q", "R", "S", "T", "U", "V", "W", "X", "Y", "Z",
    "0", "1", "2", "3", "4", "5", "6", "7", "8", "9", "_" }

SetMin(S) == CHOOSE x \in S : \A y \in S : x <= y
SetMax(S) == CHOOSE x \in S : \A y \in S : x >= y

NoMatch == [found |-> FALSE, group |-> <<>>, end |-> 0]

TicketOpen == <<"<", "t", "i", "c", "k", "e", "t">>

\* Where a match of <ticket\s([^>]+)\/> that starts at i can end its group:
\* j is the position of the "/" that follows the group.
GroupEnds(xml, i) ==
  { j \in (i + 9)..(Len(xml) - 1) :
      /\ xml[j] = "/"
      /\ xml[j + 1] = ">"
      /\ \A k \in (i + 8)..(j - 1) : xml[k] # ">" }

TicketAt(xml, i) ==
  /\ i + 7 <= Len(xml)
  /\ SubSeq(xml, i, i + 6) = TicketOpen
  /\ xml[i + 7] \in Whitespace
  /\ GroupEnds(xml, i) # {}

\* The leftmost match at or after from; greedy takes the longest group, lazy
\* the shortest.
TicketExec(xml, from, greedy) ==
  LET starts == {i \in from..Len(xml) : TicketAt(xml, i)} IN
  IF starts = {} THEN NoMatch
  ELSE LET i == SetMin(starts)
           j == IF greedy THEN SetMax(GroupEnds(xml, i))
                ELSE SetMin(GroupEnds(xml, i))
       IN [found |-> TRUE, group |-> SubSeq(xml, i + 8, j - 1), end |-> j + 2]

\* The runs of [^"]* that a closing quote follows, from position v.
ValueEnds(s, v) ==
  { c \in v..Len(s) : s[c] = "\"" /\ \A k \in v..(c - 1) : s[k] # "\"" }

\* Where the name of a match of (\w+)="([^"]*)" that starts at p can end.
NameEnds(s, p) ==
  { q \in p..(Len(s) - 2) :
      /\ s[q + 1] = "="
      /\ s[q + 2] = "\""
      /\ \A k \in p..q : s[k] \in WordChars
      /\ ValueEnds(s, q + 3) # {} }

NoAttr == [found |-> FALSE, name |-> <<>>, value |-> <<>>, end |-> 0]

\* attrRegex.exec(attrString) with lastIndex = from - 1.
AttrExec(s, from) ==
  LET starts == {p \in from..Len(s) : NameEnds(s, p) # {}} IN
  IF starts = {} THEN NoAttr
  ELSE LET p == SetMin(starts)
           q == SetMax(NameEnds(s, p))
           c == SetMax(ValueEnds(s, q + 3))
       IN [found |-> TRUE, name |-> SubSeq(s, p, q),
           value |-> SubSeq(s, q + 3, c - 1), end |-> c + 1]

EmptyAttrs == [n \in {} |-> <<>>]

\* attrs[m[1]] = m[2]
SetAttr(attrs, name, value) ==
  [n \in DOMAIN attrs \cup {name} |-> IF n = name THEN value ELSE attrs[n]]

RECURSIVE AttrsFrom(_, _, _)
AttrsFrom(s, from, attrs) ==
  LET m == AttrExec(s, from) IN
  IF ~m.found THEN attrs
  ELSE AttrsFrom(s, m.end, SetAttr(attrs, m.name, m.value))

\* The while loop over attrRegex.exec: every key="value" pair of attrString.
ExtractAttrs(attrString) == AttrsFrom(attrString, 1, EmptyAttrs)

RECURSIVE TicketsFrom(_, _)
TicketsFrom(xml, from) ==
  LET m == TicketExec(xml, from, FALSE) IN
  IF ~m.found THEN <<>>
  ELSE <<ExtractAttrs(m.group)>> \o TicketsFrom(xml, m.end)

\* The error thrown inside getTicketDetails' own try block.
NotFound ==
  [response |-> FALSE, status |-> "", statusText |-> "",
   message |-> "No <ticket> element found in response."]

\* Lines 268-286: the slot after the GET returned the body xml.
getTicketDetailsFinish(s, xml) ==
  LET m == TicketExec(xml, 1, TRUE) IN
  IF ~m.found
  THEN Reject(s, RestError("getTicketDetails", NotFound))
  ELSE Resolve(s, [kind |-> "attrs", val |-> ExtractAttrs(m.group)])

\* Lines 317-332.
searchTicketsByCreatorFinish(s, xml) ==
  Resolve(s, [kind |-> "list", val |-> TicketsFrom(xml, 1)])

\* ------------------------------------------------------------ the XML sent

\* An element is a sequence of <<name, value>> attributes with distinct names.
AttrText(a) == <<" ">> \o a[1] \o <<"=", "\"">> \o a[2] \o <<"\"">>

ElementText(e) ==
  TicketOpen \o Flatten([i \in DOMAIN e |-> AttrText(e[i])]) \o <<"/", ">">>

\* <tickets> ... </tickets>
BodyText(elems) ==
  <<"<", "t", "i", "c", "k", "e", "t", "s", ">">>
    \o Flatten([i \in DOMAIN elems |-> ElementText(elems[i])])
    \o <<"<", "/", "t", "i", "c", "k", "e", "t", "s", ">">>

\* The mapping an element's attributes denote.
MapOf(e) ==
  [n \in {e[i][1] : i \in DOMAIN e} |->
     e[CHOOSE i \in DOMAIN e : e[i][1] = n][2]]

IdName == <<"i", "d">>
SubjectName == <<"s">>

\* Any character except a double quote; ">" and "/" are the ones the
\* element syntax also uses.
ValChars == {"x", ">", "/"}
Values == SeqsUpTo(ValChars, MaxValLen)

Elements ==
  {<<<<n, v>>>> : n \in {IdName, SubjectName}, v \in Values}
    \cup {<<<<IdName, v>>, <<SubjectName, w>>>> : v \in Values, w \in Values}

XmlBodies == SeqsUpTo(Elements, MaxElems)

SmallXmlBodies == {<<>>, <<<<<<IdName, <<"5">>>>>>>>}

\* ------------------------------------------------------- the REST operations

restGet(p, op) ==
  /\ Free(p)
  /\ slots' = [slots EXCEPT ![p] =
       [Started(op) EXCEPT !.pc = "awaitGet", !.httpGets = 1]]
  /\ UNCHANGED <<authToken, soapClient, handler>>

getTicketDetails(p) == restGet(p, "getTicketDetails")

searchTicketsByCreator(p) == restGet(p, "searchTicketsByCreator")

getTicketDetailsResolve(p, elems) ==
  /\ slots[p].pc = "awaitGet"
  /\ slots[p].op = "getTicketDetails"
  /\ slots' = [slots EXCEPT ![p] =
       getTicketDetailsFinish([@ EXCEPT !.input = Received(elems)], BodyText(elems))]
  /\ UNCHANGED <<authToken, soapClient, handler>>

searchTicketsByCreatorResolve(p, elems) ==
  /\ slots[p].pc = "awaitGet"
  /\ slots[p].op = "searchTicketsByCreator"
  /\ slots' = [slots EXCEPT ![p] =
       searchTicketsByCreatorFinish([@ EXCEPT !.input = Received(elems)], BodyText(elems))]
  /\ UNCHANGED <<authToken, soapClient, handler>>

\* axios.get rejects: a non-2xx status or no response at all.
restReject(p, f) ==
  /\ slots[p].pc = "awaitGet"
  /\ slots' = [slots EXCEPT ![p] = Reject([@ EXCEPT !.input = Failed(f)], RestError(@.op, f))]
  /\ UNCHANGED <<authToken, soapClient, handler>>

\* ---------------------------------------------------------- the routes

Routes == {"/token", "/new-ticket", "/keyword"}

\* The value of an un-awaited async call.
Promise == [kind |-> "promise"]
EmptyObject == [kind |-> "object"]

\* res.json({key: v}): JSON.stringify writes a Promise as {}.
ResJson(key, v) ==
  [key |-> key, value |-> IF v.kind = "promise" THEN EmptyObject ELSE v]

\* A request arrives: the handler builds its own client and awaits
\* client.authenticate().  The handler's calls run in slots 1 and 2.
routeRequest(r) ==
  /\ handler.pc = "idle"
  /\ handler' = [route |-> r, pc |-> "awaitAuth", response |-> NoResponse]
  /\ slots' = [slots EXCEPT ![1] = AuthenticateEnter]
  /\ UNCHANGED <<authToken, soapClient>>

\* authenticate() rejected: the async handler rejects, nothing is sent.
routeAuthFailed ==
  /\ handler.pc = "awaitAuth"
  /\ slots[1].pc = "rejected"
  /\ handler' = [handler EXCEPT !.pc = "failed"]
  /\ UNCHANGED <<authToken, soapClient, slots>>

\* router.get("/token"): res.json({authToken})
routeToken ==
  /\ handler.pc = "awaitAuth"
  /\ handler.route = "/token"
  /\ slots[1].pc = "resolved"
  /\ handler' = [handler EXCEPT !.pc = "done",
                                !.response = ResJson("authToken", slots[1].result)]
  /\ UNCHANGED <<authToken, soapClient, slots>>

\* router.get("/new-ticket"): await client.createTicket({...})
routeNewTicketCall ==
  /\ handler.pc = "awaitAuth"
  /\ handler.route = "/new-ticket"
  /\ slots[1].pc = "resolved"
  /\ handler' = [handler EXCEPT !.pc = "awaitOp"]
  /\ slots' = [slots EXCEPT ![2] = GetSoapClientEnter(Started("createTicket"))]
  /\ UNCHANGED <<authToken, soapClient>>

\* res.json({newTicket}); the res.json({message: "OK"}) after it throws,
\* the response having been sent.
routeNewTicketSend ==
  /\ handler.pc = "awaitOp"
  /\ slots[2].pc = "resolved"
  /\ handler' = [handler EXCEPT !.pc = "failed",
                                !.response = ResJson("newTicket", slots[2].result)]
  /\ UNCHANGED <<authToken, soapClient, slots>>

routeNewTicketFailed ==
  /\ handler.pc = "awaitOp"
  /\ slots[2].pc = "rejected"
  /\ handler' = [handler EXCEPT !.pc = "failed"]
  /\ UNCHANGED <<authToken, soapClient, slots>>

\* router.get("/keyword"): const keyowords = client.getKeywords();
\* res.json({keyowords})
routeKeyword ==
  /\ handler.pc = "awaitAuth"
  /\ handler.route = "/keyword"
  /\ slots[1].pc = "resolved"
  /\ handler' = [handler EXCEPT !.pc = "done",
                                !.response = ResJson("keyowords", Promise)]
  /\ slots' = [slots EXCEPT ![2] = GetSoapClientEnter(Started("getKeywords"))]
  /\ UNCHANGED <<authToken, soapClient>>

\* ---------------------------------------------------------- specifications

\* One client instance, its operations invoked in any order and overlapping.
Next ==
  \E p \in Procs :
    \/ authenticate(p)
    \/ \E body \in SmallAuthBodies : authenticateResolve(p, body)
    \/ \E f \in SmallFailures : authenticateReject(p, f)
    \/ createTicket(p)
    \/ getKeywords(p)
    \/ getSoapClientResolve(p)
    \/ \E e \in CreateErrors : getSoapClientReject(p, e)
    \/ soapCall(p)
    \/ \E ret \in SmallRets : createTicketResolve(p, ret)
    \/ \E ret \in SmallKeywordReturns : getKeywordsResolve(p, ret)
    \/ \E e \in CallErrors : soapCallReject(p, e)
    \/ getTicketDetails(p)
    \/ searchTicketsByCreator(p)
    \/ \E elems \in SmallXmlBodies : getTicketDetailsResolve(p, elems)
    \/ \E elems \in SmallXmlBodies : searchTicketsByCreatorResolve(p, elems)
    \/ \E f \in SmallFailures : restReject(p, f)

Spec == Init /\ [][Next]_vars

\* A SOAP-based operation is in flight.
SoapBusy == \E q \in Procs : slots[q].op \in SoapOps /\ InFlight(q)

\* As Next, but no SOAP-based operation is invoked while another is in flight.
NextSeq ==
  \E p \in Procs :
    \/ authenticate(p)
    \/ \E body \in SmallAuthBodies : authenticateResolve(p, body)
    \/ \E f \in SmallFailures : authenticateReject(p, f)
    \/ ~SoapBusy /\ createTicket(p)
    \/ ~SoapBusy /\ getKeywords(p)
    \/ getSoapClientResolve(p)
    \/ \E e \in CreateErrors : getSoapClientReject(p, e)
    \/ soapCall(p)
    \/ \E ret \in SmallRets : createTicketResolve(p, ret)
    \/ \E ret \in SmallKeywordReturns : getKeywordsResolve(p, ret)
    \/ \E e \in CallErrors : soapCallReject(p, e)
    \/ getTicketDetails(p)
    \/ searchTicketsByCreator(p)
    \/ \E elems \in SmallXmlBodies : getTicketDetailsResolve(p, elems)
    \/ \E elems \in SmallXmlBodies : searchTicketsByCreatorResolve(p, elems)
    \/ \E f \in SmallFailures : restReject(p, f)

SpecSeq == Init /\ [][NextSeq]_vars

\* One caller awaiting each call: the session and the SOAP-based operations
\* over every token body and every returned string within the bounds.
NextSoap ==
  \/ authenticate(1)
  \/ \E body \in AuthBodies : authenticateResolve(1, body)
  \/ \E f \in Failures : authenticateReject(1, f)
  \/ createTicket(1)
  \/ getKeywords(1)
  \/ getSoapClientResolve(1)
  \/ \E e \in CreateErrors : getSoapClientReject(1, e)
  \/ soapCall(1)
  \/ \E ret \in Rets \cup {Undefined} : createTicketResolve(1, ret)
  \/ \E ret \in KeywordReturns : getKeywordsResolve(1, ret)
  \/ \E e \in CallErrors : soapCallReject(1, e)

SpecSoap == Init /\ [][NextSoap]_vars

\* One caller awaiting each call: the REST operations over every XML body
\* within the bounds.
NextExtract ==
  \/ authenticate(1)
  \/ \E body \in SmallAuthBodies : authenticateResolve(1, body)
  \/ \E f \in SmallFailures : authenticateReject(1, f)
  \/ getTicketDetails(1)
  \/ searchTicketsByCreator(1)
  \/ \E elems \in XmlBodies : getTicketDetailsResolve(1, elems)
  \/ \E elems \in XmlBodies : searchTicketsByCreatorResolve(1, elems)
  \/ \E f \in Failures : restReject(1, f)

SpecExtract == Init /\ [][NextExtract]_vars

\* One request to a dokuweb route and the client calls its handler makes.
NextRoutes ==
  \/ \E r \in Routes : routeRequest(r)
  \/ routeAuthFailed
  \/ routeToken
  \/ routeNewTicketCall
  \/ routeNewTicketSend
  \/ routeNewTicketFailed
  \/ routeKeyword
  \/ \E p \in {1, 2} :
       \/ \E body \in AuthBodies : authenticateResolve(p, body)
       \/ \E f \in Failures : authenticateReject(p, f)
       \/ getSoapClientResolve(p)
       \/ \E e \in CreateErrors : getSoapClientReject(p, e)
       \/ soapCall(p)
       \/ \E ret \in Rets \cup {Undefined} : createTicketResolve(p, ret)
       \/ \E ret \in KeywordReturns : getKeywordsResolve(p, ret)
       \/ \E e \in CallErrors : soapCallReject(p, e)

SpecRoutes == Init /\ [][NextRoutes]_vars

\* ------------------------------------------------------------------ claims

\* Slot p starts a new invocation in this step.
Invoked(p) == Free(p) /\ slots'[p] # slots[p]

Settled(p) == slots[p].pc \in {"resolved", "rejected"}

\* C1: a ticket/keyword operation invoked while the instance holds no
\* non-empty token fails at once with the precondition error and makes no
\* transport call (no SOAP handle creation, no SOAP call, no HTTP GET).
C1_NoTokenNoTransport ==
  [][\A p \in Procs :
       (Invoked(p) /\ slots'[p].op \in TicketOps /\ Falsy(authToken)) =>
         /\ slots'[p].pc = "rejected"
         /\ slots'[p].error = PreconditionMsg
         /\ slots'[p].creates = 0
         /\ slots'[p].soapCalls = 0
         /\ slots'[p].httpGets = 0]_vars

\* C2: with SOAP-based operations that do not overlap, the first one on an
\* authenticated client invokes handle creation; once the handle is set it
\* is never replaced or cleared, no operation invokes creation again, and
\* every later operation takes the stored handle and calls on it.
C2_HandleCreatedOnceReused ==
  [][\A p \in Procs :
       /\ soapClient # NoClient =>
            soapClient' = soapClient /\ slots'[p].pc # "awaitCreate"
       /\ (Invoked(p) /\ slots'[p].op \in SoapOps /\ soapClient # NoClient) =>
            /\ slots'[p].pc = "gotClient"
            /\ slots'[p].client = soapClient
            /\ slots'[p].creates = 0
       /\ (Invoked(p) /\ slots'[p].op \in SoapOps /\ soapClient = NoClient
             /\ ~Falsy(authToken)) =>
            slots'[p].pc = "awaitCreate" /\ slots'[p].creates = 1
       /\ (slots[p].pc = "gotClient" /\ slots'[p].pc = "awaitCall") =>
            slots[p].client = soapClient]_vars

\* A later operation is calling on the handle an earlier one created.
C2_Witness ==
  \E p \in Procs :
    /\ slots[p].op \in SoapOps
    /\ slots[p].pc = "awaitCall"
    /\ slots[p].creates = 0
    /\ slots[p].client = soapClient
    /\ soapClient # NoClient

\* C3: every operation that found the handle absent has invoked handle
\* creation, and each creation that completes stores its own new handle,
\* replacing whatever handle an earlier completion stored (which the earlier
\* operation keeps using).
C3_RaceDuplicateCreation ==
  [][\A p \in Procs :
       /\ slots[p].pc = "awaitCreate" => slots[p].creates = 1
       /\ (slots[p].pc = "awaitCreate" /\ slots'[p].pc = "gotClient") =>
            /\ soapClient' # soapClient
            /\ slots'[p].client = soapClient'
            /\ \A q \in Procs \ {p} : slots'[q].client = slots[q].client]_vars

\* Two operations each invoked creation; the second completion overwrote
\* the handle the first had stored.
C3_Witness ==
  \E p, q \in Procs :
    /\ p # q
    /\ slots[p].op \in SoapOps /\ slots[q].op \in SoapOps
    /\ slots[p].creates = 1 /\ slots[q].creates = 1
    /\ slots[p].client = 1
    /\ slots[q].client = 2
    /\ soapClient = 2

\* t is body without its leading and trailing whitespace.
IsTrimOf(t, body) ==
  \E i \in 1..(Len(body) + 1) : \E j \in (i - 1)..Len(body) :
    /\ t = SubSeq(body, i, j)
    /\ \A k \in 1..(i - 1) : body[k] \in Whitespace
    /\ \A k \in (j + 1)..Len(body) : body[k] \in Whitespace
    /\ t # <<>> => t[1] \notin Whitespace /\ t[Len(t)] \notin Whitespace

\* msg names the status code and reason of a failed request; a request that
\* got no response has only its failure message as reason.
CarriesStatus(msg, f) ==
  IF f.response
  THEN Contains(msg, <<f.status>>) /\ Contains(msg, <<f.statusText>>)
  ELSE Contains(msg, <<f.message>>)

\* C4: authenticate() on success stores the trimmed response body as the
\* token and returns it; on any failed request it rejects with an
\* Authentication error carrying the status code and reason, the stored
\* token unchanged.
C4_Authenticate ==
  [][\A p \in Procs :
       (slots[p].pc = "awaitAuth" /\ slots'[p].pc # "awaitAuth") =>
         /\ slots'[p].pc = "resolved" =>
              /\ IsTrimOf(authToken', slots'[p].input.val)
              /\ slots'[p].result = [kind |-> "string", val |-> authToken']
         /\ slots'[p].pc = "rejected" =>
              /\ authToken' = authToken
              /\ Contains(slots'[p].error, <<"Authentication failed: ">>)
              /\ CarriesStatus(slots'[p].error, slots'[p].input.val)]_vars

\* C5: getTicketDetails on a fetched body with no <ticket .../> element
\* rejects with an error that carries the operation name and the cause (no
\* ticket element found), not a transport status.
C5_NotFoundCarriesCause ==
  \A p \in Procs :
    ( /\ slots[p].op = "getTicketDetails"
      /\ Settled(p)
      /\ slots[p].input.kind = "response"
      /\ slots[p].input.val = <<>> ) =>
        /\ slots[p].pc = "rejected"
        /\ Contains(slots[p].error, <<"getTicketDetails">>)
        /\ Contains(slots[p].error, <<NotFound.message>>)
        /\ ~Contains(slots[p].error, Undefined)

\* C6: from a body of N <ticket .../> elements whose attribute values hold
\* any character but a double quote, searchTicketsByCreator returns the N
\* mappings in document order (none for N = 0) and getTicketDetails the
\* mapping of the first, each with every attribute and its value as written.
C6_ExtractsEveryElement ==
  \A p \in Procs :
    (Settled(p) /\ slots[p].input.kind = "response") =>
      LET elems == slots[p].input.val IN
      /\ slots[p].op = "searchTicketsByCreator" =>
           /\ slots[p].pc = "resolved"
           /\ Len(slots[p].result.val) = Len(elems)
           /\ \A i \in DOMAIN elems : slots[p].result.val[i] = MapOf(elems[i])
      /\ (slots[p].op = "getTicketDetails" /\ elems # <<>>) =>
           /\ slots[p].pc = "resolved"
           /\ slots[p].result.val = MapOf(elems[1])

RECURSIVE Join(_, _)
Join(parts, sep) ==
  IF Len(parts) = 1 THEN parts[1]
  ELSE parts[1] \o <<sep>> \o Join(Tail(parts), sep)

\* parts are the fields of ret: none holds the separator, and joined by it
\* they give ret back.
IsFieldsOf(parts, ret, sep) ==
  /\ Len(parts) >= 1
  /\ \A i \in DOMAIN parts : ~Contains(parts[i], <<sep>>)
  /\ Join(parts, sep) = ret

\* C7: createTicket on a returned string whose first pipe-delimited field is
\* "true" resolves to {ticketid: second field, ticketnr: third field};
\* on any other string it rejects with a creation failure whose message
\* contains the returned string.
C7_CreateTicketParsing ==
  \A p \in Procs :
    ( /\ slots[p].op = "createTicket"
      /\ Settled(p)
      /\ slots[p].input.kind = "response"
      /\ slots[p].input.val # Undefined ) =>
        LET ret == slots[p].input.val
            parts == Split(ret, "|")
        IN /\ IsFieldsOf(parts, ret, "|")
           /\ parts[1] = StrTrue =>
                /\ slots[p].pc = "resolved"
                /\ slots[p].result.ticketid =
                     (IF Len(parts) >= 2 THEN parts[2] ELSE Undefined)
                /\ slots[p].result.ticketnr =
                     (IF Len(parts) >= 3 THEN parts[3] ELSE Undefined)
           /\ parts[1] # StrTrue =>
                /\ slots[p].pc = "rejected"
                /\ Contains(slots[p].error, <<"Ticket creation failed: ">>)
                /\ Contains(slots[p].error, ret)

\* "true|5|T" gave {ticketid: "5", ticketnr: "T"} and no error.
C7_Witness ==
  \E p \in Procs :
    /\ slots[p].op = "createTicket"
    /\ slots[p].pc = "resolved"
    /\ slots[p].input.val = StrTrue \o <<"|", "5", "|", "T">>
    /\ slots[p].result.ticketid = <<"5">>
    /\ slots[p].result.ticketnr = <<"T">>

\* C8: getKeywords on an envelope with SUCCESS true resolves to its DATA
\* unchanged; with SUCCESS false it rejects with an error containing the
\* envelope's ERRORTEXT; on a string that is not valid JSON it rejects.
C8_GetKeywordsParsing ==
  \A p \in Procs :
    ( /\ slots[p].op = "getKeywords"
      /\ Settled(p)
      /\ slots[p].input.kind = "response" ) =>
        LET ret == slots[p].input.val IN
        /\ ~ret.wellFormed => slots[p].pc = "rejected"
        /\ (ret.wellFormed /\ ~ret.isNull /\ ret.SUCCESS = JsTrue) =>
             /\ slots[p].pc = "resolved"
             /\ slots[p].result.val = ret.DATA
        /\ (ret.wellFormed /\ ~ret.isNull /\ ret.SUCCESS = JsFalse) =>
             /\ slots[p].pc = "rejected"
             /\ Contains(slots[p].error, ret.ERRORTEXT)

\* A SUCCESS false envelope with ERRORTEXT "no access" was rejected with
\* that text.
C8_Witness ==
  \E p \in Procs :
    /\ slots[p].op = "getKeywords"
    /\ slots[p].pc = "rejected"
    /\ slots[p].input.kind = "response"
    /\ slots[p].input.val.wellFormed
    /\ slots[p].input.val.SUCCESS = JsFalse
    /\ slots[p].input.val.ERRORTEXT = <<"no access">>
    /\ Contains(slots[p].error, <<"no access">>)

\* C9: every rejection of createTicket / getKeywords, whatever its stage,
\* is one error carrying the operation name and the underlying message, and
\* the invocation made at most one handle creation and one SOAP call.
C9_SoapFailuresWrapped ==
  \A p \in Procs :
    (slots[p].op \in SoapOps /\ slots[p].pc = "rejected") =>
      /\ Contains(slots[p].error, <<slots[p].op>>)
      /\ Len(slots[p].error) >= 2
      /\ slots[p].creates <= 1
      /\ slots[p].soapCalls <= 1

\* The slot of the client operation a route's response reports.
RouteSlot(r) == IF r = "/token" THEN 1 ELSE 2

\* C10: a route's response is sent only once the client operation it
\* invoked has resolved, and its body carries that operation's result.
C10_ResponseAfterCompletion ==
  handler.response.key # "none" =>
    /\ slots[RouteSlot(handler.route)].pc = "resolved"
    /\ handler.response.value.kind = slots[RouteSlot(handler.route)].result.kind
    /\ handler.response.value = slots[RouteSlot(handler.route)].result

====
